---- MODULE Spec2Model ----
(***************************************************************************)
(* Model of decopatch/utils_disambiguation.py: the engine that decides     *)
(* whether a decorator was used without parenthesis (@deco) or with        *)
(* parenthesis (@deco(x)).                                                 *)
(*                                                                         *)
(* Python objects are modelled by atoms (strings).  An exception raised by *)
(* an operation is the "exc" field of the operation's result.              *)
(***************************************************************************)
EXTENDS Integers, Sequences, FiniteSets, TLC

(***************************************************************************)
(* Bounds of the model.                                                    *)
(***************************************************************************)
\* longest tuple of purely-positional arguments received
MaxArgs == 2
\* invocations of disambiguate_call on one DecoratorUsageInfo
MaxCalls == 2
\* characters of the call site's source line
MaxLineLen == 3

(***************************************************************************)
(* Python values.                                                          *)
(***************************************************************************)
None == "None"
\* a plain function, a class, an int: what a decorator may receive
a_function == "a_function"
a_class == "a_class"
an_int == "42"
\* the class DecoratorUsageInfo itself, also used as the 'uninitialized' mark
DecoratorUsageInfo == "DecoratorUsageInfo"
\* inspect.Parameter.empty: the default of a parameter that has none (a class)
empty == "Parameter.empty"
\* the tuple object that Signature.bind builds for a var-positional parameter
args_tuple == "tuple(args)"

\* no exception was raised
NoExc == "no exception"
TypeError == "TypeError"
KeyError == "KeyError"
IndexError == "IndexError"
InternalErrorPositional == "Exception: Internal error - this should not happen"
InternalErrorNotHit == "Exception: Internal error - this line of code is not supposed to be hit"
IntrospectionNotAvailable == "Exception: Decorator disambiguation using stack introspection is not available"

\* the builtin callable(): functions and classes are callable
callable(arg) ==
    arg \in {a_function, a_class, DecoratorUsageInfo, empty}

\* inspect.isclass()
isclass(arg) ==
    arg \in {a_class, DecoratorUsageInfo, empty}

(***************************************************************************)
(* class FirstArgDisambiguation(Enum)                                      *)
(***************************************************************************)
is_normal_arg == "is_normal_arg"
is_decorated_target == "is_decorated_target"
is_ambiguous == "is_ambiguous"
FirstArgDisambiguation == {is_normal_arg, is_decorated_target, is_ambiguous}

_WITH_PARENTHESIS == is_normal_arg
_NO_PARENTHESIS == is_decorated_target

can_arg_be_a_decorator_target(arg) ==
    callable(arg) \/ isclass(arg)

(***************************************************************************)
(* Signatures.  A parameter is [name, kind, default]; kinds are            *)
(* POSITIONAL_ONLY, POSITIONAL_OR_KEYWORD, VAR_POSITIONAL, KEYWORD_ONLY.   *)
(***************************************************************************)
POSITIONAL_ONLY == "POSITIONAL_ONLY"
POSITIONAL_OR_KEYWORD == "POSITIONAL_OR_KEYWORD"
VAR_POSITIONAL == "VAR_POSITIONAL"
KEYWORD_ONLY == "KEYWORD_ONLY"

Param(name, kind, default) ==
    [name |-> name, kind |-> kind, default |-> default]

\* SignatureInfo: what the engine reads of the exposed signature
SignatureInfo(params) ==
    [exposed_signature |-> params,
     first_arg_def |-> params[1],
     first_arg_name |-> params[1].name,
     is_first_arg_varpositional |-> params[1].kind = VAR_POSITIONAL,
     is_first_arg_positional_only |-> params[1].kind = POSITIONAL_ONLY,
     is_first_arg_mandatory |-> params[1].default = empty /\ params[1].kind # VAR_POSITIONAL]

\* a mapping with no entry
EmptyMap == [n \in {} |-> None]

\* d with the entry name -> value added
Put(d, name, value) ==
    [n \in (DOMAIN d) \cup {name} |-> IF n = name THEN value ELSE d[n]]

(***************************************************************************)
(* inspect.Signature.bind of args and kwargs: [exc, arguments].            *)
(* BindKeywords binds the parameters that no positional argument reached.  *)
(***************************************************************************)
RECURSIVE BindKeywords(_, _, _, _)
BindKeywords(params, i, kwargs, arguments) ==
    IF i > Len(params)
    THEN [exc |-> NoExc, arguments |-> arguments]
    ELSE LET p == params[i]
         IN IF p.kind = VAR_POSITIONAL
            THEN BindKeywords(params, i + 1, kwargs, arguments)
            ELSE IF p.name \in DOMAIN kwargs
            THEN IF p.kind = POSITIONAL_ONLY
                 THEN [exc |-> TypeError, arguments |-> arguments]
                 ELSE BindKeywords(params, i + 1, kwargs, Put(arguments, p.name, kwargs[p.name]))
            ELSE IF p.default = empty
            THEN [exc |-> TypeError, arguments |-> arguments]
            ELSE BindKeywords(params, i + 1, kwargs, arguments)

RECURSIVE BindPositional(_, _, _, _, _, _)
BindPositional(params, i, args, j, kwargs, arguments) ==
    IF j > Len(args)
    THEN BindKeywords(params, i, kwargs, arguments)
    ELSE IF i > Len(params)
    THEN [exc |-> TypeError, arguments |-> arguments]
    ELSE LET p == params[i]
         IN IF p.kind = KEYWORD_ONLY
            THEN [exc |-> TypeError, arguments |-> arguments]
            ELSE IF p.kind = VAR_POSITIONAL
            THEN BindKeywords(params, i + 1, kwargs, Put(arguments, p.name, args_tuple))
            ELSE IF p.name \in DOMAIN kwargs /\ p.kind # POSITIONAL_ONLY
            THEN [exc |-> TypeError, arguments |-> arguments]
            ELSE BindPositional(params, i + 1, args, j + 1, kwargs, Put(arguments, p.name, args[j]))

\* a keyword that names no parameter is a TypeError
UnexpectedKeyword(params, kwargs, b) ==
    IF b.exc = NoExc /\ ~((DOMAIN kwargs) \subseteq {params[i].name : i \in 1..Len(params)})
    THEN [exc |-> TypeError, arguments |-> b.arguments]
    ELSE b

bind(params, args, kwargs) ==
    UnexpectedKeyword(params, kwargs, BindPositional(params, 1, args, 1, kwargs, EmptyMap))

(***************************************************************************)
(* class DecoratorUsageInfo.  dk is the object: its slots, and two         *)
(* counters of the assignments made to _first_arg_value and _bound and one *)
(* of the calls of the binder.  A property read gives [dk, exc, val].      *)
(***************************************************************************)
Uninitialized == DecoratorUsageInfo

NewDecoratorUsageInfo(sig_info, args, kwargs) ==
    [sig_info |-> sig_info, args |-> args, kwargs |-> kwargs,
     _first_arg_value |-> Uninitialized, _bound |-> <<>>,
     n_first_set |-> 0, n_bound_set |-> 0, n_bind |-> 0]

\* line 58: the assignment of what the binder, b, gave
set_bound(dk, b) ==
    IF b.exc # NoExc
    THEN [dk |-> [dk EXCEPT !.n_bind = @ + 1], exc |-> b.exc, val |-> EmptyMap]
    ELSE [dk |-> [dk EXCEPT !._bound = <<b.arguments>>, !.n_bound_set = @ + 1, !.n_bind = @ + 1],
          exc |-> NoExc, val |-> b.arguments]

\* the property DecoratorUsageInfo.bound; _bound is <<>> for None
bound(dk) ==
    IF dk._bound = <<>>
    THEN set_bound(dk, bind(dk.sig_info.exposed_signature, dk.args, dk.kwargs))
    ELSE [dk |-> dk, exc |-> NoExc, val |-> dk._bound[1]]

\* line 52: the assignment of the entry of b, the result of self.bound
set_first_arg_value(b, first_arg_name) ==
    IF b.exc # NoExc
    THEN [dk |-> b.dk, exc |-> b.exc, val |-> None]
    ELSE IF first_arg_name \notin DOMAIN b.val
    THEN [dk |-> b.dk, exc |-> KeyError, val |-> None]
    ELSE [dk |-> [b.dk EXCEPT !._first_arg_value = b.val[first_arg_name], !.n_first_set = @ + 1],
          exc |-> NoExc, val |-> b.val[first_arg_name]]

\* mutant of first_arg_value: the value is computed at every read
first_arg_value_not_memoized(dk) ==
    set_first_arg_value(bound(dk), dk.sig_info.first_arg_name)

\* the property DecoratorUsageInfo.first_arg_value
first_arg_value(dk) ==
    IF dk._first_arg_value = Uninitialized
    THEN set_first_arg_value(bound(dk), dk.sig_info.first_arg_name)
    ELSE [dk |-> dk, exc |-> NoExc, val |-> dk._first_arg_value]

(***************************************************************************)
(* The call stack that inspect.stack(context=1) returns: its number of     *)
(* frames and, of the frame at FrameIndex, the file name and the source    *)
(* context (<<>> for None, else the one line).  Strings are sequences of   *)
(* characters.                                                             *)
(***************************************************************************)
FrameIndex == 5

Chars == {" ", "@", "(", "d"}

startswith(str, c) ==
    Len(str) > 0 /\ str[1] = c

contains(str, c) ==
    \E i \in 1..Len(str) : str[i] = c

\* mutant of lstrip: the leading whitespace is kept
lstrip_keeps_blanks(str) ==
    str

\* str.lstrip(): the string without its leading whitespace
RECURSIVE lstrip(_)
lstrip(str) ==
    IF Len(str) > 0 /\ str[1] = " " THEN lstrip(Tail(str)) ELSE str

\* lines 237-245
read_line(cal_line_str) ==
    IF startswith(cal_line_str, "@")
    THEN IF ~contains(cal_line_str, "(")
         THEN [exc |-> NoExc, ret |-> is_decorated_target]
         ELSE [exc |-> NoExc, ret |-> is_normal_arg]
    ELSE [exc |-> NoExc, ret |-> is_normal_arg]

\* the body of the try block of disambiguate_using_introspection: [exc, ret]
introspection_try(calframe) ==
    IF calframe.depth <= FrameIndex
    THEN [exc |-> IndexError, ret |-> None]
    ELSE IF startswith(calframe.filename, "<")
    THEN [exc |-> IntrospectionNotAvailable, ret |-> None]
    ELSE IF calframe.code_context = <<>>
    THEN [exc |-> TypeError, ret |-> None]
    ELSE read_line(lstrip(calframe.code_context[1]))

\* lines 247-248: the except clause turns every Exception of the try block into None
introspection_except(r) ==
    IF r.exc # NoExc THEN [exc |-> NoExc, ret |-> None] ELSE r

\* [exc, ret]
disambiguate_using_introspection(calframe, first_arg_received) ==
    IF isclass(first_arg_received)
    THEN [exc |-> NoExc, ret |-> None]
    ELSE introspection_except(introspection_try(calframe))

(***************************************************************************)
(* create_single_arg_callable_or_class_disambiguator: the closure d holds  *)
(* the arguments of the factory; the operator is the inner function        *)
(* disambiguate_call(first_arg_received), [exc, ret].  Customs are the       *)
(* user-provided disambiguators of the model.                              *)
(***************************************************************************)
Customs == {"always_normal_arg", "always_ambiguous", "functions_are_targets"}

call_firstarg_disambiguator(f, first_arg_received) ==
    IF f = "always_normal_arg" THEN is_normal_arg
    ELSE IF f = "always_ambiguous" THEN is_ambiguous
    ELSE IF isclass(first_arg_received) THEN is_normal_arg
    ELSE is_decorated_target

\* mutant of static_rules: the forced override is looked at before the custom
\* disambiguator
static_rules_override_first(d, first_arg_received) ==
    IF callable(first_arg_received) /\ ~isclass(first_arg_received) /\ ~d.is_function_decorator
    THEN [exc |-> NoExc, ret |-> is_normal_arg]
    ELSE IF isclass(first_arg_received) /\ ~d.is_class_decorator
    THEN [exc |-> NoExc, ret |-> is_normal_arg]
    ELSE IF d.can_first_arg_be_ambiguous # None
    THEN IF d.can_first_arg_be_ambiguous = "True"
         THEN [exc |-> NoExc, ret |-> is_ambiguous]
         ELSE [exc |-> NoExc, ret |-> is_decorated_target]
    ELSE IF d.callable_or_cls_firstarg_disambiguator # None
    THEN [exc |-> NoExc,
          ret |-> call_firstarg_disambiguator(d.callable_or_cls_firstarg_disambiguator,
                                              first_arg_received)]
    ELSE IF d.signature_knowledge.is_first_arg_mandatory
    THEN [exc |-> NoExc, ret |-> is_decorated_target]
    ELSE [exc |-> InternalErrorNotHit, ret |-> None]

\* mutant of static_rules: the two verdicts of the forced override are swapped
static_rules_override_swapped(d, first_arg_received) ==
    IF callable(first_arg_received) /\ ~isclass(first_arg_received) /\ ~d.is_function_decorator
    THEN [exc |-> NoExc, ret |-> is_normal_arg]
    ELSE IF isclass(first_arg_received) /\ ~d.is_class_decorator
    THEN [exc |-> NoExc, ret |-> is_normal_arg]
    ELSE IF d.callable_or_cls_firstarg_disambiguator # None
    THEN [exc |-> NoExc,
          ret |-> call_firstarg_disambiguator(d.callable_or_cls_firstarg_disambiguator,
                                              first_arg_received)]
    ELSE IF d.can_first_arg_be_ambiguous # None
    THEN IF d.can_first_arg_be_ambiguous = "True"
         THEN [exc |-> NoExc, ret |-> is_decorated_target]
         ELSE [exc |-> NoExc, ret |-> is_ambiguous]
    ELSE IF d.signature_knowledge.is_first_arg_mandatory
    THEN [exc |-> NoExc, ret |-> is_decorated_target]
    ELSE [exc |-> InternalErrorNotHit, ret |-> None]

\* lines 143-175: the rules that do not look at the stack
static_rules(d, first_arg_received) ==
    IF callable(first_arg_received) /\ ~isclass(first_arg_received) /\ ~d.is_function_decorator
    THEN [exc |-> NoExc, ret |-> is_normal_arg]
    ELSE IF isclass(first_arg_received) /\ ~d.is_class_decorator
    THEN [exc |-> NoExc, ret |-> is_normal_arg]
    ELSE IF d.callable_or_cls_firstarg_disambiguator # None
    THEN [exc |-> NoExc,
          ret |-> call_firstarg_disambiguator(d.callable_or_cls_firstarg_disambiguator,
                                              first_arg_received)]
    ELSE IF d.can_first_arg_be_ambiguous # None
    THEN IF d.can_first_arg_be_ambiguous = "True"
         THEN [exc |-> NoExc, ret |-> is_ambiguous]
         ELSE [exc |-> NoExc, ret |-> is_decorated_target]
    ELSE IF d.signature_knowledge.is_first_arg_mandatory
    THEN [exc |-> NoExc, ret |-> is_decorated_target]
    ELSE [exc |-> InternalErrorNotHit, ret |-> None]

\* lines 139-141, and the rules after them
after_introspection(res, d, first_arg_received) ==
    IF res.exc # NoExc
    THEN res
    ELSE IF res.ret # None
    THEN res
    ELSE static_rules(d, first_arg_received)

\* mutant of the last-resort disambiguator: a plain callable that the decorator does
\* not support is a normal argument before the stack is looked at
create_disambiguator_support_first(d, calframe, first_arg_received) ==
    IF callable(first_arg_received) /\ ~isclass(first_arg_received) /\ ~d.is_function_decorator
    THEN [exc |-> NoExc, ret |-> is_normal_arg]
    ELSE IF d.enable_stack_introspection
    THEN after_introspection(disambiguate_using_introspection(calframe, first_arg_received),
                             d, first_arg_received)
    ELSE static_rules(d, first_arg_received)

create_single_arg_callable_or_class_disambiguator(d, calframe, first_arg_received) ==
    IF d.enable_stack_introspection
    THEN after_introspection(disambiguate_using_introspection(calframe, first_arg_received),
                             d, first_arg_received)
    ELSE static_rules(d, first_arg_received)

(***************************************************************************)
(* disambiguate_call(dk, disambiguator): [dk, exc, ret, fb_calls, fb_arg,  *)
(* fb_out]: the object afterwards, the exception or the verdict, and how   *)
(* often, with what and with what outcome the disambiguator was called.    *)
(***************************************************************************)
Return(dk, verdict) ==
    [dk |-> dk, exc |-> NoExc, ret |-> verdict, fb_calls |-> 0, fb_arg |-> None, fb_out |-> None]

Raise(dk, exc) ==
    [dk |-> dk, exc |-> exc, ret |-> None, fb_calls |-> 0, fb_arg |-> None, fb_out |-> None]

Outcome(r) ==
    IF r.exc # NoExc THEN r.exc ELSE r.ret

\* lines 103-104: b is the result of dk.bound
RECURSIVE other_args_loop(_, _)
other_arg(b, i, p_def) ==
    IF b.exc # NoExc
    THEN [dk |-> b.dk, exc |-> b.exc, val |-> FALSE]
    ELSE IF p_def.name \notin DOMAIN b.val
    THEN [dk |-> b.dk, exc |-> KeyError, val |-> FALSE]
    ELSE IF b.val[p_def.name] # p_def.default
    THEN [dk |-> b.dk, exc |-> NoExc, val |-> TRUE]
    ELSE other_args_loop(b.dk, i + 1)

\* lines 100-104: whether a parameter from the i-th on is bound to a value that is
\* not its default, [dk, exc, val]
other_args_loop(dk, i) ==
    IF i > Len(dk.sig_info.exposed_signature)
    THEN [dk |-> dk, exc |-> NoExc, val |-> FALSE]
    ELSE other_arg(bound(dk), i, dk.sig_info.exposed_signature[i])

\* the call of line 109: v is the result of dk.first_arg_value, r of the disambiguator
disambiguator_result(v, r) ==
    [dk |-> v.dk, exc |-> r.exc, ret |-> r.ret,
     fb_calls |-> 1, fb_arg |-> v.val, fb_out |-> Outcome(r)]

call_disambiguator(v, d, calframe) ==
    IF v.exc # NoExc
    THEN Raise(v.dk, v.exc)
    ELSE disambiguator_result(v, create_single_arg_callable_or_class_disambiguator(d, calframe, v.val))

\* mutant of after_loop: the other arguments do not count
after_loop_ignores_others(o, d, calframe) ==
    IF o.exc # NoExc
    THEN Raise(o.dk, o.exc)
    ELSE call_disambiguator(first_arg_value(o.dk), d, calframe)

\* lines 98-109: o is the result of the loop over the other parameters
after_loop(o, d, calframe) ==
    IF o.exc # NoExc
    THEN Raise(o.dk, o.exc)
    ELSE IF o.val
    THEN Return(o.dk, _WITH_PARENTHESIS)
    ELSE call_disambiguator(first_arg_value(o.dk), d, calframe)

\* lines 94-109: v is the result of dk.first_arg_value
default_check(v, d, calframe) ==
    IF v.exc # NoExc
    THEN Raise(v.dk, v.exc)
    ELSE IF v.val = v.dk.sig_info.first_arg_def.default
    THEN Return(v.dk, _WITH_PARENTHESIS)
    ELSE after_loop(other_args_loop(v.dk, 2), d, calframe)

\* mutant of target_check: a value that cannot be decorated is not eliminated
target_check_skipped(v, d, calframe) ==
    IF v.exc # NoExc
    THEN Raise(v.dk, v.exc)
    ELSE default_check(first_arg_value(v.dk), d, calframe)

\* lines 91-109: v is the result of dk.first_arg_value
target_check(v, d, calframe) ==
    IF v.exc # NoExc
    THEN Raise(v.dk, v.exc)
    ELSE IF ~can_arg_be_a_decorator_target(v.val)
    THEN Return(v.dk, _WITH_PARENTHESIS)
    ELSE default_check(first_arg_value(v.dk), d, calframe)

\* lines 90-109
work_on_values(dk, d, calframe) ==
    target_check(first_arg_value(dk), d, calframe)

nb_posonly_received(dk) ==
    Len(dk.args)

\* mutant of disambiguate_call: two positional arguments are still ambiguous
disambiguate_call_two_ambiguous(dk, d, calframe) ==
    IF dk.sig_info.is_first_arg_varpositional \/ dk.sig_info.is_first_arg_positional_only
    THEN IF nb_posonly_received(dk) = 0
         THEN Return(dk, _WITH_PARENTHESIS)
         ELSE IF nb_posonly_received(dk) > 2
         THEN Return(dk, _WITH_PARENTHESIS)
         ELSE work_on_values([dk EXCEPT !._first_arg_value = dk.args[1], !.n_first_set = @ + 1],
                             d, calframe)
    ELSE IF nb_posonly_received(dk) > 0
         THEN Raise(dk, InternalErrorPositional)
         ELSE work_on_values(dk, d, calframe)

\* mutant of disambiguate_call: one positional argument for a first parameter that
\* can be a keyword is let through
disambiguate_call_one_let_through(dk, d, calframe) ==
    IF dk.sig_info.is_first_arg_varpositional \/ dk.sig_info.is_first_arg_positional_only
    THEN IF nb_posonly_received(dk) = 0
         THEN Return(dk, _WITH_PARENTHESIS)
         ELSE IF nb_posonly_received(dk) >= 2
         THEN Return(dk, _WITH_PARENTHESIS)
         ELSE work_on_values([dk EXCEPT !._first_arg_value = dk.args[1], !.n_first_set = @ + 1],
                             d, calframe)
    ELSE IF nb_posonly_received(dk) > 1
         THEN Raise(dk, InternalErrorPositional)
         ELSE work_on_values(dk, d, calframe)

disambiguate_call(dk, d, calframe) ==
    IF dk.sig_info.is_first_arg_varpositional \/ dk.sig_info.is_first_arg_positional_only
    THEN IF nb_posonly_received(dk) = 0
         THEN Return(dk, _WITH_PARENTHESIS)
         ELSE IF nb_posonly_received(dk) >= 2
         THEN Return(dk, _WITH_PARENTHESIS)
         ELSE work_on_values([dk EXCEPT !._first_arg_value = dk.args[1], !.n_first_set = @ + 1],
                             d, calframe)
    ELSE IF nb_posonly_received(dk) > 0
         THEN Raise(dk, InternalErrorPositional)
         ELSE work_on_values(dk, d, calframe)

(***************************************************************************)
(* The inputs of the model.                                                *)
(***************************************************************************)
FirstParams ==
    {Param("a", k, dflt) : k \in {POSITIONAL_ONLY, POSITIONAL_OR_KEYWORD},
                           dflt \in {empty, None, a_function}}
    \cup {Param("args", VAR_POSITIONAL, empty)}

OtherParams(first) ==
    LET k == IF first.kind = VAR_POSITIONAL THEN KEYWORD_ONLY ELSE POSITIONAL_OR_KEYWORD
    IN {<<>>} \cup {<<Param("b", k, dflt)>> : dflt \in {empty, None}}

Signatures ==
    {<<first>> \o others : first \in FirstParams, others \in UNION {OtherParams(f) : f \in FirstParams}}

WellFormed(params) ==
    params \in {<<first>> \o others : first \in {params[1]}, others \in OtherParams(params[1])}

\* the values received positionally, and by keyword for the first and the other parameters
ArgValues == {a_function, a_class, an_int, None}
FirstKwValues == {a_function, a_class, an_int, None}
OtherKwValues == {None, an_int}

Args == UNION {[1..n -> ArgValues] : n \in 0..MaxArgs}

\* kwargs hold every parameter that can be passed by keyword (source line 82)
KwNames(params) ==
    {params[i].name : i \in {j \in 1..Len(params) :
                              params[j].kind \in {POSITIONAL_OR_KEYWORD, KEYWORD_ONLY}}}

Kwargs(params) ==
    {k \in [KwNames(params) -> FirstKwValues \cup OtherKwValues] :
        \A n \in KwNames(params) :
            k[n] \in (IF n = params[1].name THEN FirstKwValues ELSE OtherKwValues)}

Policies ==
    [is_function_decorator : BOOLEAN,
     is_class_decorator : BOOLEAN,
     can_first_arg_be_ambiguous : {None, "True", "False"},
     callable_or_cls_firstarg_disambiguator : {None} \cup Customs,
     enable_stack_introspection : BOOLEAN]

\* the closure of the factory: its policy arguments and signature_knowledge
Closure(policy, sig_info) ==
    [is_function_decorator |-> policy.is_function_decorator,
     is_class_decorator |-> policy.is_class_decorator,
     can_first_arg_be_ambiguous |-> policy.can_first_arg_be_ambiguous,
     callable_or_cls_firstarg_disambiguator |-> policy.callable_or_cls_firstarg_disambiguator,
     enable_stack_introspection |-> policy.enable_stack_introspection,
     signature_knowledge |-> sig_info]

Lines == UNION {[1..n -> Chars] : n \in 0..MaxLineLen}

FileNames == {<<"<", "d", ">">>, <<"d", ".", "p", "y">>}

CallFrames ==
    [depth : {FrameIndex, FrameIndex + 1},
     filename : FileNames,
     code_context : {<<>>} \cup {<<l>> : l \in Lines}]

\* the call sites and policies of the runs of the whole chain
ChainFrames ==
    {c \in CallFrames : c.code_context \in {<<>>, << <<"@", "d">> >>, << <<"@", "d", "(">> >>}
                        /\ (c.depth = FrameIndex => c.code_context = <<>> /\ ~startswith(c.filename, "<"))
                        /\ (startswith(c.filename, "<") => c.code_context # <<>>)
                        /\ (c.code_context = << <<"@", "d", "(">> >> => ~startswith(c.filename, "<"))}

DefaultFrame ==
    [depth |-> FrameIndex + 1, filename |-> <<"d", ".", "p", "y">>, code_context |-> << <<"@", "d">> >>]

ChainPolicies ==
    {p \in Policies :
        /\ p.callable_or_cls_firstarg_disambiguator \in {None, "always_ambiguous"}
        /\ p.enable_stack_introspection =>
              /\ p.is_function_decorator
              /\ p.is_class_decorator
              /\ p.can_first_arg_be_ambiguous = None
              /\ p.callable_or_cls_firstarg_disambiguator = None}

(***************************************************************************)
(* State.                                                                  *)
(***************************************************************************)
VARIABLES
    usage,          \* the DecoratorUsageInfo of the decorator call
    disambiguator,  \* the closure made by create_single_arg_callable_or_class_disambiguator
    stack_,         \* what inspect.stack() returns at the call site of the decorator
    n_calls,        \* calls of the operation so far
    outcome,        \* what the last call returned or raised
    received,       \* first_arg_received of the last call of the last-resort disambiguator
    fb_calls,       \* calls of the disambiguator made by the last disambiguate_call
    fb_out,         \* what the disambiguator returned or raised in it
    call_binds      \* calls of the binder made by the last disambiguate_call

vars == <<usage, disambiguator, stack_, n_calls, outcome, received, fb_calls, fb_out, call_binds>>

\* the object after an operation: n_bind counts within one operation
After(dk) ==
    [dk EXCEPT !.n_bind = 0]

NoCallYet ==
    /\ n_calls = 0
    /\ outcome = None
    /\ received = None
    /\ fb_calls = 0
    /\ fb_out = None
    /\ call_binds = 0

(***************************************************************************)
(* The chain: one DecoratorUsageInfo, read and disambiguated.              *)
(***************************************************************************)
Init ==
    /\ \E params \in Signatures, args \in Args :
          /\ WellFormed(params)
          /\ \E kwargs \in Kwargs(params) :
                usage = NewDecoratorUsageInfo(SignatureInfo(params), args, kwargs)
    /\ \E policy \in ChainPolicies :
          /\ disambiguator = Closure(policy, usage.sig_info)
          /\ stack_ \in (IF policy.enable_stack_introspection THEN ChainFrames ELSE {DefaultFrame})
    /\ NoCallYet

\* a read of dk.bound
ReadBound ==
    /\ usage' = After(bound(usage).dk)
    /\ UNCHANGED <<disambiguator, stack_, n_calls, outcome, received, fb_calls, fb_out, call_binds>>

\* a read of dk.first_arg_value
ReadFirstArgValue ==
    /\ usage' = After(first_arg_value(usage).dk)
    /\ UNCHANGED <<disambiguator, stack_, n_calls, outcome, received, fb_calls, fb_out, call_binds>>

\* the state after a call of disambiguate_call that ended as r
Called(r) ==
    /\ usage' = After(r.dk)
    /\ outcome' = Outcome(r)
    /\ received' = r.fb_arg
    /\ fb_calls' = r.fb_calls
    /\ fb_out' = r.fb_out
    /\ call_binds' = r.dk.n_bind

DisambiguateCall ==
    /\ n_calls < MaxCalls
    /\ Called(disambiguate_call(After(usage), disambiguator, stack_))
    /\ n_calls' = n_calls + 1
    /\ UNCHANGED <<disambiguator, stack_>>

Next ==
    \/ ReadBound
    \/ ReadFirstArgValue
    \/ DisambiguateCall

Spec == Init /\ [][Next]_vars

(***************************************************************************)
(* The last-resort disambiguator alone: one closure, called with the       *)
(* values disambiguate_call can hand to it (callables and classes).        *)
(***************************************************************************)
TargetValues == {v \in ArgValues : can_arg_be_a_decorator_target(v)}

InitLastResort ==
    /\ \E first \in FirstParams, policy \in Policies :
          /\ usage = NewDecoratorUsageInfo(SignatureInfo(<<first>>), <<>>, EmptyMap)
          /\ disambiguator = Closure(policy, usage.sig_info)
    /\ stack_ \in ChainFrames
    /\ NoCallYet

LastResort ==
    /\ n_calls < MaxCalls
    /\ \E first_arg_received \in TargetValues :
          /\ received' = first_arg_received
          /\ outcome' = Outcome(create_single_arg_callable_or_class_disambiguator(
                                    disambiguator, stack_, first_arg_received))
    /\ n_calls' = n_calls + 1
    /\ UNCHANGED <<usage, disambiguator, stack_, fb_calls, fb_out, call_binds>>

NextLastResort ==
    LastResort

SpecLastResort == InitLastResort /\ [][NextLastResort]_vars

(***************************************************************************)
(* disambiguate_using_introspection alone, over every call stack.          *)
(***************************************************************************)
InitIntrospection ==
    /\ usage = NewDecoratorUsageInfo(SignatureInfo(<<Param("a", POSITIONAL_OR_KEYWORD, empty)>>),
                                     <<>>, EmptyMap)
    /\ disambiguator \in {Closure(policy, usage.sig_info) :
                            policy \in {q \in ChainPolicies : q.enable_stack_introspection}}
    /\ stack_ \in CallFrames
    /\ NoCallYet

Introspect ==
    /\ n_calls < MaxCalls
    /\ \E first_arg_received \in TargetValues :
          /\ received' = first_arg_received
          /\ outcome' = Outcome(disambiguate_using_introspection(stack_, first_arg_received))
    /\ n_calls' = n_calls + 1
    /\ UNCHANGED <<usage, disambiguator, stack_, fb_calls, fb_out, call_binds>>

NextIntrospection ==
    Introspect

SpecIntrospection == InitIntrospection /\ [][NextIntrospection]_vars

(***************************************************************************)
(* Properties of disambiguate_call (specification Spec).                   *)
(***************************************************************************)
CountKind ==
    usage.sig_info.is_first_arg_varpositional \/ usage.sig_info.is_first_arg_positional_only

\* C1: when the first parameter is variadic-positional or positional-only and 0 or
\* at least 2 purely-positional arguments were received, the verdict of
\* disambiguate_call is is_normal_arg, whatever the keywords, values and disambiguator.
C1_PositionalCountElimination ==
    (n_calls > 0 /\ CountKind /\ (Len(usage.args) = 0 \/ Len(usage.args) >= 2))
        => outcome = is_normal_arg

C1_Witness ==
    /\ n_calls > 0
    /\ usage.sig_info.is_first_arg_varpositional
    /\ Len(usage.args) = 2
    /\ usage.args[1] = a_function
    /\ disambiguator.can_first_arg_be_ambiguous = "False"
    /\ outcome = is_normal_arg

\* what a read of dk.first_arg_value gives, v, is a value and it is not one that can
\* be decorated, or it is the default of the first parameter
EliminatedByValue(v) ==
    /\ v.exc = NoExc
    /\ \/ ~(callable(v.val) \/ isclass(v.val))
       \/ v.val = usage.sig_info.first_arg_def.default

\* C2: when the value of the first argument is neither callable nor a class, or is
\* the declared default of the first parameter, the verdict is is_normal_arg and the
\* disambiguator has not been called.
C2_ValueElimination ==
    (n_calls > 0 /\ EliminatedByValue(first_arg_value(usage)))
        => (outcome = is_normal_arg /\ fb_calls = 0)

C2_Witness ==
    /\ n_calls > 0
    /\ Len(usage.args) = 0
    /\ usage.sig_info.first_arg_def.default = a_function
    /\ usage._first_arg_value = a_function
    /\ Len(usage.sig_info.exposed_signature) = 1
    /\ disambiguator.can_first_arg_be_ambiguous = "False"
    /\ outcome = is_normal_arg
    /\ fb_calls = 0

\* what a read of dk.first_arg_value gives, v, is a value that can be decorated and
\* is not the default of the first parameter
PlausibleTarget(v) ==
    /\ v.exc = NoExc
    /\ callable(v.val) \/ isclass(v.val)
    /\ v.val # usage.sig_info.first_arg_def.default

\* a parameter other than the first is bound, in b, to a value that is not its default
OtherNonDefault(b) ==
    \E i \in 2..Len(usage.sig_info.exposed_signature) :
        /\ b.exc = NoExc
        /\ usage.sig_info.exposed_signature[i].name \in DOMAIN b.val
        /\ b.val[usage.sig_info.exposed_signature[i].name]
              # usage.sig_info.exposed_signature[i].default

Delegated(v) ==
    /\ fb_calls = 1
    /\ received = v.val
    /\ outcome = fb_out

\* C3: when the first argument's value is a plausible target and not its default:
\* if another parameter is bound to a value that is not its default the verdict is
\* is_normal_arg and the disambiguator is not called, else the disambiguator is
\* called once, with that value, and its outcome is returned unchanged; a verdict
\* is_decorated_target or is_ambiguous is returned in the second case only.
C3_ExtraNonDefaultOrDelegate ==
    n_calls > 0 =>
        /\ PlausibleTarget(first_arg_value(usage)) =>
              IF OtherNonDefault(bound(usage))
              THEN outcome = is_normal_arg /\ fb_calls = 0
              ELSE Delegated(first_arg_value(usage))
        /\ outcome \in {is_decorated_target, is_ambiguous} =>
              /\ PlausibleTarget(first_arg_value(usage))
              /\ ~OtherNonDefault(bound(usage))

C3_Witness ==
    /\ n_calls > 0
    /\ Len(usage.sig_info.exposed_signature) = 2
    /\ usage._first_arg_value = a_function
    /\ fb_calls = 1
    /\ received = a_function
    /\ outcome = is_ambiguous

\* C10: when the first parameter can be passed by keyword and purely-positional
\* arguments were received, disambiguate_call raises the internal error, having
\* called neither the binder nor the disambiguator; with no purely-positional
\* argument it does not raise that error.
C10_InternalErrorOnPositional ==
    (n_calls > 0 /\ ~CountKind) =>
        IF Len(usage.args) > 0
        THEN outcome = InternalErrorPositional /\ fb_calls = 0 /\ call_binds = 0
        ELSE outcome # InternalErrorPositional

C10_Witness ==
    /\ n_calls > 0
    /\ ~CountKind
    /\ usage.args = <<a_function>>
    /\ usage.kwargs["a"] = an_int
    /\ outcome = InternalErrorPositional
    /\ usage._bound = <<>>

(***************************************************************************)
(* Memoization (specification Spec).                                       *)
(***************************************************************************)
BoundOnce ==
    /\ usage'.n_bound_set <= 1
    /\ usage._bound # <<>> => usage'._bound = usage._bound

SameVerdictAgain ==
    (n_calls >= 1 /\ n_calls' = n_calls + 1) => outcome' = outcome

\* the first disambiguate_call of a context with a variadic first parameter and one
\* positional argument: line 83 replaces the tuple a read has memoized by its element
FirstCallOfVariadic ==
    /\ n_calls = 0
    /\ n_calls' = 1
    /\ usage.sig_info.is_first_arg_varpositional
    /\ Len(usage.args) = 1

\* C8, as amended: _bound is assigned at most once and then never changes; a read
\* never assigns nor changes a memoized _first_arg_value; a memoized _first_arg_value
\* is changed by no step but the first disambiguate_call of a context with a variadic
\* first parameter and one positional argument; and a second disambiguate_call on the
\* context has the outcome of the first.
C8_MemoizationAmended ==
    [][/\ BoundOnce
       /\ (usage._first_arg_value # Uninitialized /\ n_calls' = n_calls)
             => usage'.n_first_set = usage.n_first_set
       /\ (usage._first_arg_value # Uninitialized /\ ~FirstCallOfVariadic)
             => usage'._first_arg_value = usage._first_arg_value
       /\ SameVerdictAgain]_vars

C8_Witness ==
    /\ n_calls = 2
    /\ usage.n_first_set >= 2
    /\ usage.n_bound_set = 1
    /\ usage._first_arg_value = a_function
    /\ outcome = is_decorated_target

\* C8, as claimed: _bound and _first_arg_value are each assigned at most once and
\* stable thereafter, and a second disambiguate_call gives the same verdict.
C8_MemoizationAsClaimed ==
    [][/\ BoundOnce
       /\ usage'.n_first_set <= 1
       /\ usage._first_arg_value # Uninitialized
             => usage'._first_arg_value = usage._first_arg_value
       /\ SameVerdictAgain]_vars

(***************************************************************************)
(* Properties of the last-resort disambiguator (specification              *)
(* SpecLastResort).                                                        *)
(***************************************************************************)
\* the received value is one the decorator does not support: a plain callable for
\* a decorator that is no function decorator, a class for one that is no class decorator
Unsupported ==
    \/ callable(received) /\ ~isclass(received) /\ ~disambiguator.is_function_decorator
    \/ isclass(received) /\ ~disambiguator.is_class_decorator

\* introspection is disabled, or it gives no verdict for the received value
Inconclusive ==
    disambiguator.enable_stack_introspection
        => disambiguate_using_introspection(stack_, received).ret = None

CustomAndOverride ==
    /\ n_calls > 0
    /\ disambiguator.callable_or_cls_firstarg_disambiguator # None
    /\ disambiguator.can_first_arg_be_ambiguous # None

CustomVerdict ==
    call_firstarg_disambiguator(disambiguator.callable_or_cls_firstarg_disambiguator, received)

\* C4, as amended: with a custom disambiguator and a forced override both set, the
\* verdict is the custom disambiguator's whenever introspection is disabled or
\* inconclusive and the decorator supports the kind of the received value (a plain
\* callable, a class).
C4_CustomBeforeOverrideAmended ==
    (CustomAndOverride /\ Inconclusive /\ ~Unsupported) => outcome = CustomVerdict

C4_Witness ==
    /\ CustomAndOverride
    /\ disambiguator.callable_or_cls_firstarg_disambiguator = "functions_are_targets"
    /\ disambiguator.can_first_arg_be_ambiguous = "True"
    /\ received = a_function
    /\ outcome = is_decorated_target

\* C4, as claimed: with a custom disambiguator and a forced override both set, the
\* verdict for any received value is the custom disambiguator's.
C4_CustomBeforeOverrideAsClaimed ==
    CustomAndOverride => outcome = CustomVerdict

\* the outcome agrees with what introspection, i, gave: its verdict, or else the
\* outcome of the closure that differs only in having introspection disabled
FollowsIntrospection(i) ==
    IF i.ret # None
    THEN outcome = i.ret
    ELSE outcome = Outcome(create_single_arg_callable_or_class_disambiguator(
                               [disambiguator EXCEPT !.enable_stack_introspection = FALSE],
                               stack_, received))

\* C5: with introspection enabled, a verdict of disambiguate_using_introspection is
\* returned whatever the static policy; when it gives None the result is that of
\* the same policy with introspection disabled.
C5_IntrospectionFirst ==
    (n_calls > 0 /\ disambiguator.enable_stack_introspection)
        => FollowsIntrospection(disambiguate_using_introspection(stack_, received))

C5_Witness ==
    /\ n_calls > 0
    /\ disambiguator.enable_stack_introspection
    /\ ~disambiguator.is_function_decorator
    /\ disambiguator.can_first_arg_be_ambiguous = "True"
    /\ received = a_function
    /\ outcome = is_decorated_target

\* one mandatory parameter, no custom disambiguator, introspection disabled, called
\* with a function
MandatoryFirstCase ==
    /\ n_calls > 0
    /\ Len(disambiguator.signature_knowledge.exposed_signature) = 1
    /\ disambiguator.signature_knowledge.is_first_arg_mandatory
    /\ disambiguator.callable_or_cls_firstarg_disambiguator = None
    /\ ~disambiguator.enable_stack_introspection
    /\ received = a_function

ByOverride ==
    IF disambiguator.can_first_arg_be_ambiguous = "True"
    THEN outcome = is_ambiguous
    ELSE outcome = is_decorated_target

\* no override, no custom disambiguator, a first parameter that is not mandatory, and
\* the rules before this one did not decide
NotSupposedToBeHit ==
    /\ n_calls > 0
    /\ disambiguator.can_first_arg_be_ambiguous = None
    /\ disambiguator.callable_or_cls_firstarg_disambiguator = None
    /\ ~disambiguator.signature_knowledge.is_first_arg_mandatory
    /\ Inconclusive
    /\ ~Unsupported

\* C6, as amended: in the case of one mandatory parameter, and when the decorator is
\* a function decorator, the verdict is is_ambiguous under the forced-ambiguous
\* override and is_decorated_target under the forced-target override or none; with no
\* override, no custom disambiguator and a first parameter that is not mandatory the
\* call ends in the internal error.
C6_StaticPolicyAmended ==
    /\ (MandatoryFirstCase /\ disambiguator.is_function_decorator) => ByOverride
    /\ NotSupposedToBeHit => outcome = InternalErrorNotHit

C6_Witness ==
    /\ MandatoryFirstCase
    /\ disambiguator.is_function_decorator
    /\ disambiguator.can_first_arg_be_ambiguous = "True"
    /\ outcome = is_ambiguous

\* C6, as claimed: the same without the condition that the decorator is a function
\* decorator.
C6_StaticPolicyAsClaimed ==
    /\ MandatoryFirstCase => ByOverride
    /\ NotSupposedToBeHit => outcome = InternalErrorNotHit

\* introspection is enabled, the value is no class, and the frame of the call site
\* is of a file whose name starts with '<'
UnresolvableCallSite ==
    /\ n_calls > 0
    /\ disambiguator.enable_stack_introspection
    /\ ~isclass(received)
    /\ stack_.depth > FrameIndex
    /\ startswith(stack_.filename, "<")

\* C7: when the call site is in a file that has no source text (its name starts with
\* '<'), the call of the disambiguator ends in the error raised at line 224; no
\* verdict is returned.
C7_UnresolvableCallSiteRaises ==
    UnresolvableCallSite => outcome = IntrospectionNotAvailable

(***************************************************************************)
(* Properties of disambiguate_using_introspection (specification           *)
(* SpecIntrospection).                                                     *)
(***************************************************************************)
\* the line's first character that is no blank is '@'
AtSignFirst(line) ==
    \E i \in 1..Len(line) :
        /\ line[i] = "@"
        /\ \A j \in 1..(i - 1) : line[j] = " "

HasParenthesis(line) ==
    \E i \in 1..Len(line) : line[i] = "("

\* the frame exists, is of a real source file, and has its line of source
LineAvailable ==
    /\ stack_.depth > FrameIndex
    /\ ~startswith(stack_.filename, "<")
    /\ stack_.code_context # <<>>

\* the stack is too shallow, or the frame of a real source file has no source text
OtherFailure ==
    \/ stack_.depth <= FrameIndex
    \/ ~startswith(stack_.filename, "<") /\ stack_.code_context = <<>>

ByLine(line) ==
    IF AtSignFirst(line) /\ ~HasParenthesis(line)
    THEN outcome = is_decorated_target
    ELSE outcome = is_normal_arg

\* C9: disambiguate_using_introspection returns None for a class; else, when the
\* line of the call site is available, is_decorated_target if the line, without its
\* leading blanks, starts with '@' and holds no '(', and is_normal_arg if not; None
\* when the stack is too shallow or the source text is missing; never is_ambiguous.
C9_IntrospectionMapping ==
    n_calls > 0 =>
        /\ isclass(received) => outcome = None
        /\ (~isclass(received) /\ LineAvailable) => ByLine(stack_.code_context[1])
        /\ (~isclass(received) /\ OtherFailure) => outcome = None
        /\ outcome # is_ambiguous

C9_Witness ==
    /\ n_calls > 0
    /\ received = a_function
    /\ LineAvailable
    /\ stack_.code_context = << <<" ", "@", "d">> >>
    /\ outcome = is_decorated_target

====
